---------------------------- MODULE Spec2Model ----------------------------
(***************************************************************************)
(* The four generational operators of src/de/simple.rs:                    *)
(*   SimpleInitializer::initialize, SimpleMutationOperator::mutate_one,    *)
(*   SimpleCrossoverOperator::crossover_one, SimpleSelector::select_one.   *)
(*                                                                         *)
(* f64 values are modelled on an integer grid.  Finite values are the      *)
(* integers of magnitude <= FMax; the two integers of magnitude FMax + 1   *)
(* stand for -inf and +inf (NotNan admits both).  Each operator runs in a  *)
(* call frame of its own (a record holding its locals and its position).   *)
(***************************************************************************)
EXTENDS Integers, Sequences, FiniteSets

VARIABLES
    inits,      \* the SimpleInitializer instances: Seq of [bounds, seed]
    ctor,       \* ghost: the constructor each instance was built with
    ini,        \* the frame of the initialize call
    prev,       \* ghost: the initialize call completed before the current one
    slot,       \* one population slot of the caller: [score, variable]
    sel,        \* ghost: the last select_one call, its arguments and result
    scale,      \* SimpleMutationOperator.scale
    mut,        \* the frame of the mutate_one call
    crossover_rate,  \* SimpleCrossoverOperator.crossover_rate, in 1/RGrid units
    cro         \* the frame of the crossover_one call

vars == <<inits, ctor, ini, prev, slot, sel, scale, mut, crossover_rate, cro>>

---------------------------------------------------------------------------
(* Bounds of the model *)

\* largest dimension of a vector
MaxDim == 2
\* largest population_size passed to initialize
MaxPop == 2
\* largest seed
MaxSeed == 1
\* largest finite magnitude of the value grid
FMax == 2
\* largest population passed to mutate_one
MaxMutPop == 4
\* most index draws followed in one mutate_one call
MaxDraws == 4
\* resolution of the unit interval: r and crossover_rate are multiples of 1/RGrid
RGrid == 2

---------------------------------------------------------------------------
(* Values *)

PosInf == FMax + 1
NegInf == -(FMax + 1)
IsFinite(x) == -FMax <= x /\ x <= FMax

Range(s) == {s[i] : i \in 1..Len(s)}
Min(a, b) == IF a < b THEN a ELSE b

\* AnyResult<T>
Ok(v) == [kind |-> "ok", val |-> v]
Err == [kind |-> "err", val |-> <<>>]
NoRes == [kind |-> "none", val |-> <<>>]

Genes == {-1, 0, 1}
VectorsOfDim(d) == [1..d -> Genes]
Vectors == UNION {VectorsOfDim(d) : d \in 0..MaxDim}

RECURSIVE SumSq(_)
SumSq(x) == IF x = <<>> THEN 0 ELSE x[1] * x[1] + SumSq(Tail(x))

\* The objective functions the operators are run against: the sum of squares,
\* a stub returning a fixed value, and an objective that fails on some vectors.
Problems == {"sphere", "fixed", "partial"}

Evaluate(problem, x) ==
    CASE problem = "sphere" -> Ok(SumSq(x))
      [] problem = "fixed" -> Ok(1)
      [] problem = "partial" ->
            IF x # <<>> /\ x[1] % 2 = 1 THEN Err ELSE Ok(SumSq(x))

---------------------------------------------------------------------------
(* SimpleSelector *)

Scores == 0..MaxDim

select_one_ties_to_trial(problem, s_current, v_current, v_trial) ==
    LET s_trial == Evaluate(problem, v_trial) IN
    IF s_trial.kind # "ok" THEN Err
    ELSE IF s_trial.val <= s_current
         THEN Ok(<<s_trial.val, v_trial>>)
         ELSE Ok(<<s_current, v_current>>)

select_one_always_trial(problem, s_current, v_current, v_trial) ==
    LET s_trial == Evaluate(problem, v_trial) IN
    IF s_trial.kind # "ok" THEN Err
    ELSE Ok(<<s_trial.val, v_trial>>)

select_one(problem, s_current, v_current, v_trial) ==
    LET s_trial == Evaluate(problem, v_trial) IN
    IF s_trial.kind # "ok" THEN Err
    ELSE IF s_trial.val < s_current
         THEN Ok(<<s_trial.val, v_trial>>)
         ELSE Ok(<<s_current, v_current>>)

NoSlot == [set |-> FALSE, score |-> 0, variable |-> <<>>]
NoSel == [set |-> FALSE, problem |-> "sphere", s_current |-> 0, v_current |-> <<>>,
          v_trial |-> <<>>, s_trial |-> NoRes, res |-> NoRes]

\* One generation of one slot: the caller passes the slot's pair and a trial to
\* select_one and stores the returned pair; a failed call leaves the slot alone.
SelectOne ==
    /\ slot.set
    /\ \E problem \in Problems, v_trial \in Vectors :
         LET res == select_one(problem, slot.score, slot.variable, v_trial) IN
         /\ sel' = [set |-> TRUE, problem |-> problem, s_current |-> slot.score,
                    v_current |-> slot.variable, v_trial |-> v_trial,
                    s_trial |-> Evaluate(problem, v_trial), res |-> res]
         /\ slot' = IF res.kind = "ok"
                    THEN [set |-> TRUE, score |-> res.val[1], variable |-> res.val[2]]
                    ELSE slot
    /\ UNCHANGED <<inits, ctor, ini, prev, scale, mut, crossover_rate, cro>>

NextSelector == SelectOne

---------------------------------------------------------------------------
(* SimpleCrossoverOperator *)

Rates == 0..RGrid
UnitDraws == 0..(RGrid - 1)

NoCro == [pc |-> "idle", v_current |-> <<>>, v_mutant |-> <<>>, v_trial |-> <<>>,
          res |-> NoRes]

TakesMutantInclusive(r, rate) == r <= rate

\* r < self.crossover_rate, both in 1/RGrid units
TakesMutant(r, rate) == r < rate

crossover_pick(r, rate, x_current, x_mutant) ==
    IF TakesMutant(r, rate) THEN x_mutant ELSE x_current

CrossoverCall ==
    /\ cro.pc \in {"idle", "done"}
    /\ \E v_current \in Vectors, v_mutant \in Vectors :
         cro' = [pc |-> "zip", v_current |-> v_current, v_mutant |-> v_mutant,
                 v_trial |-> <<>>, res |-> NoRes]
    /\ UNCHANGED <<inits, ctor, ini, prev, slot, sel, scale, mut, crossover_rate>>

\* one iteration of the zip of the two vectors: it ends with the shorter one
CrossoverStep ==
    /\ cro.pc = "zip"
    /\ Len(cro.v_trial) < Min(Len(cro.v_current), Len(cro.v_mutant))
    /\ \E r \in UnitDraws :
         LET d == Len(cro.v_trial) + 1 IN
         cro' = [cro EXCEPT !.v_trial =
                    Append(@, crossover_pick(r, crossover_rate,
                                             cro.v_current[d], cro.v_mutant[d]))]
    /\ UNCHANGED <<inits, ctor, ini, prev, slot, sel, scale, mut, crossover_rate>>

CrossoverReturn ==
    /\ cro.pc = "zip"
    /\ Len(cro.v_trial) = Min(Len(cro.v_current), Len(cro.v_mutant))
    /\ cro' = [cro EXCEPT !.pc = "done", !.res = Ok(cro.v_trial)]
    /\ UNCHANGED <<inits, ctor, ini, prev, slot, sel, scale, mut, crossover_rate>>

NextCrossover == CrossoverCall \/ CrossoverStep \/ CrossoverReturn

---------------------------------------------------------------------------
(* SimpleMutationOperator *)

Scales == {0, 1, 2}
MutVectors == {<<0, 1>>, <<1, -1>>}
Populations == UNION {[1..n -> MutVectors] : n \in 0..MaxMutPop}

NoMut == [pc |-> "idle", population |-> <<>>, indices |-> <<>>, draws |-> <<>>,
          res |-> NoRes]

PushAlways(indices, index) == Append(indices, index)

\* if !indices.contains(&index) { indices.push(index) }
PushIfNew(indices, index) ==
    IF index \in Range(indices) THEN indices ELSE Append(indices, index)

\* &population[i0] + scale * (&population[i1] - &population[i2]), 0-based indices
Mutant(population, f, i0, i1, i2) ==
    [d \in 1..Len(population[i0 + 1]) |->
        population[i0 + 1][d] + f * (population[i1 + 1][d] - population[i2 + 1][d])]

MutateCall ==
    /\ mut.pc \in {"idle", "done"}
    /\ \E population \in Populations :
         mut' = [pc |-> "loop", population |-> population, indices |-> <<>>,
                 draws |-> <<>>, res |-> NoRes]
    /\ UNCHANGED <<inits, ctor, ini, prev, slot, sel, scale, crossover_rate, cro>>

\* one iteration of the while loop over a non-empty range 0..n
MutateDraw ==
    /\ mut.pc = "loop"
    /\ Len(mut.indices) < 3
    /\ Len(mut.population) > 0
    /\ Len(mut.draws) < MaxDraws
    /\ \E index \in 0..(Len(mut.population) - 1) :
         mut' = [mut EXCEPT !.indices = PushIfNew(@, index),
                            !.draws = Append(@, index)]
    /\ UNCHANGED <<inits, ctor, ini, prev, slot, sel, scale, crossover_rate, cro>>

\* random_range(0..0) panics: the range is empty
MutateDrawEmptyRange ==
    /\ mut.pc = "loop"
    /\ Len(mut.indices) < 3
    /\ Len(mut.population) = 0
    /\ mut' = [mut EXCEPT !.pc = "panicked"]
    /\ UNCHANGED <<inits, ctor, ini, prev, slot, sel, scale, crossover_rate, cro>>

MutateReturn ==
    /\ mut.pc = "loop"
    /\ Len(mut.indices) >= 3
    /\ LET i0 == mut.indices[1]
           i1 == mut.indices[2]
           i2 == mut.indices[3]
       IN mut' = [mut EXCEPT !.pc = "done",
                             !.res = Ok(Mutant(mut.population, scale, i0, i1, i2))]
    /\ UNCHANGED <<inits, ctor, ini, prev, slot, sel, scale, crossover_rate, cro>>

NextMutation == MutateCall \/ MutateDraw \/ MutateDrawEmptyRange \/ MutateReturn

---------------------------------------------------------------------------
(* SimpleInitializer *)

Seeds == 0..MaxSeed

BoundPairs == {<<0, 1>>, <<0, 2>>, <<-1, 1>>, <<1, 1>>, <<2, 1>>,
               <<-FMax, FMax>>, <<0, PosInf>>}
BoundsLists == UNION {[1..d -> BoundPairs] : d \in 0..MaxDim}

with_seed(bounds, seed) == [bounds |-> bounds, seed |-> seed]

\* the seed is drawn from the operating system's entropy: any seed
new(bounds) == {with_seed(bounds, seed) : seed \in Seeds}

from_single_bound(lower, upper, dim) == new([d \in 1..dim |-> <<lower, upper>>])

\* StdRng, a deterministic generator: its state after seeding, its output and
\* its next state (a 4-bit linear congruential generator stands for ChaCha12)
seed_from_u64(seed) == seed % 16
RngOutput(rng) == rng \div 2
RngNext(rng) == (5 * rng + 3) % 16

\* rng.random_range(lower..upper) on f64: panics on an empty range and on a
\* width that is not finite; else a value of [lower, upper)
RangePanics(lower, upper) == ~(lower < upper) \/ ~IsFinite(upper - lower)

RangeValueInclusive(rng, lower, upper) ==
    lower + (RngOutput(rng) % (upper - lower + 1))

RangeValue(rng, lower, upper) == lower + (RngOutput(rng) % (upper - lower))

NoIni == [pc |-> "idle", self |-> 0, problem |-> "sphere", population_size |-> 0,
          rng |-> 0, scores |-> <<>>, variables |-> <<>>, x |-> <<>>,
          ndraws |-> 0, evals |-> <<>>, res |-> NoRes]
NoPrev == [set |-> FALSE, self |-> 0, problem |-> "sphere", population_size |-> 0,
           res |-> NoRes]

\* the generator is kept from the call before instead of being re-seeded
LeftoverRng(self) == IF ini.pc = "idle" THEN seed_from_u64(inits[self].seed) ELSE ini.rng

\* let mut rng = StdRng::seed_from_u64(self.seed)
SeededRng(self) == seed_from_u64(inits[self].seed)

\* for _ in 0..population_size: whether the k iterations made are all of them
LoopDoneFromOne(k, population_size) == k + 1 >= population_size

LoopDone(k, population_size) == k >= population_size

InitializeCall ==
    /\ ini.pc \in {"idle", "done"}
    /\ \E self \in DOMAIN inits, problem \in Problems, population_size \in 0..MaxPop :
         ini' = [pc |-> "for", self |-> self, problem |-> problem,
                 population_size |-> population_size, rng |-> SeededRng(self),
                 scores |-> <<>>, variables |-> <<>>, x |-> <<>>,
                 ndraws |-> 0, evals |-> <<>>, res |-> NoRes]
    /\ prev' = IF ini.pc = "done"
               THEN [set |-> TRUE, self |-> ini.self, problem |-> ini.problem,
                     population_size |-> ini.population_size, res |-> ini.res]
               ELSE prev
    /\ UNCHANGED <<inits, ctor, slot, sel, scale, mut, crossover_rate, cro>>

\* for _ in 0..population_size: the next individual
InitializeNext ==
    /\ ini.pc = "for"
    /\ ~LoopDone(Len(ini.variables), ini.population_size)
    /\ ini' = [ini EXCEPT !.pc = "bounds", !.x = <<>>]
    /\ UNCHANGED <<inits, ctor, prev, slot, sel, scale, mut, crossover_rate, cro>>

\* x.push(rng.random_range(lower..upper)) for the next bound
InitializeDraw ==
    /\ ini.pc = "bounds"
    /\ Len(ini.x) < Len(inits[ini.self].bounds)
    /\ LET b == inits[ini.self].bounds[Len(ini.x) + 1] IN
       /\ ~RangePanics(b[1], b[2])
       /\ ini' = [ini EXCEPT !.x = Append(@, RangeValue(ini.rng, b[1], b[2])),
                             !.rng = RngNext(@),
                             !.ndraws = @ + 1]
    /\ UNCHANGED <<inits, ctor, prev, slot, sel, scale, mut, crossover_rate, cro>>

InitializeDrawPanics ==
    /\ ini.pc = "bounds"
    /\ Len(ini.x) < Len(inits[ini.self].bounds)
    /\ LET b == inits[ini.self].bounds[Len(ini.x) + 1] IN
       RangePanics(b[1], b[2])
    /\ ini' = [ini EXCEPT !.pc = "panicked"]
    /\ UNCHANGED <<inits, ctor, prev, slot, sel, scale, mut, crossover_rate, cro>>

\* a failed evaluation drops the individual and the loop goes on
InitializeKeepsGoing ==
    /\ ini.pc = "bounds"
    /\ Len(ini.x) = Len(inits[ini.self].bounds)
    /\ LET score == Evaluate(ini.problem, ini.x) IN
       ini' = IF score.kind = "ok"
              THEN [ini EXCEPT !.pc = "for",
                               !.evals = Append(@, <<ini.x, score>>),
                               !.variables = Append(@, ini.x),
                               !.scores = Append(@, score.val),
                               !.x = <<>>]
              ELSE [ini EXCEPT !.pc = "for",
                               !.evals = Append(@, <<ini.x, score>>),
                               !.x = <<>>]
    /\ UNCHANGED <<inits, ctor, prev, slot, sel, scale, mut, crossover_rate, cro>>

\* let score = problem.evaluate(&x)?; variables.push(x); scores.push(score):
\* a failed evaluation returns the error and drops the locals
InitializeEvaluate ==
    /\ ini.pc = "bounds"
    /\ Len(ini.x) = Len(inits[ini.self].bounds)
    /\ LET score == Evaluate(ini.problem, ini.x) IN
       ini' = IF score.kind = "ok"
              THEN [ini EXCEPT !.pc = "for",
                               !.evals = Append(@, <<ini.x, score>>),
                               !.variables = Append(@, ini.x),
                               !.scores = Append(@, score.val),
                               !.x = <<>>]
              ELSE [ini EXCEPT !.pc = "done",
                               !.evals = Append(@, <<ini.x, score>>),
                               !.variables = <<>>,
                               !.scores = <<>>,
                               !.x = <<>>,
                               !.res = Err]
    /\ UNCHANGED <<inits, ctor, prev, slot, sel, scale, mut, crossover_rate, cro>>

\* Ok((scores, variables))
InitializeReturn ==
    /\ ini.pc = "for"
    /\ LoopDone(Len(ini.variables), ini.population_size)
    /\ ini' = [ini EXCEPT !.pc = "done",
                          !.variables = <<>>,
                          !.scores = <<>>,
                          !.res = Ok(<<ini.scores, ini.variables>>)]
    /\ UNCHANGED <<inits, ctor, prev, slot, sel, scale, mut, crossover_rate, cro>>

NextInitializer ==
    \/ InitializeCall
    \/ InitializeNext
    \/ InitializeDraw
    \/ InitializeDrawPanics
    \/ InitializeEvaluate
    \/ InitializeReturn

---------------------------------------------------------------------------
(* Specifications *)

Constructed ==
    {<<with_seed(bounds, seed), "with_seed">> : bounds \in BoundsLists, seed \in Seeds}
    \cup UNION {{<<i, "new">> : i \in new(bounds)} : bounds \in BoundsLists}
    \cup UNION {{<<i, "from_single_bound">> : i \in from_single_bound(b[1], b[2], dim)} :
                    b \in BoundPairs, dim \in 0..MaxDim}

NoInitializer == inits = <<>> /\ ctor = <<>> /\ ini = NoIni /\ prev = NoPrev
NoSelector == slot = NoSlot /\ sel = NoSel
NoMutation == scale = 0 /\ mut = NoMut
NoCrossover == crossover_rate = 0 /\ cro = NoCro

\* one initializer, built by any of the three constructors
InitInitializer ==
    /\ \E c \in Constructed : inits = <<c[1]>> /\ ctor = <<c[2]>>
    /\ ini = NoIni /\ prev = NoPrev
    /\ NoSelector /\ NoMutation /\ NoCrossover

\* a slot holding any (score, vector) pair
InitSelector ==
    /\ \E score \in Scores, variable \in Vectors :
         slot = [set |-> TRUE, score |-> score, variable |-> variable]
    /\ sel = NoSel
    /\ NoInitializer /\ NoMutation /\ NoCrossover

InitMutation ==
    /\ scale \in Scales
    /\ mut = NoMut
    /\ NoInitializer /\ NoSelector /\ NoCrossover

InitCrossover ==
    /\ crossover_rate \in Rates
    /\ cro = NoCro
    /\ NoInitializer /\ NoSelector /\ NoMutation

DetBoundPairs == {<<0, 2>>, <<-1, 1>>, <<1, 1>>}
DetBoundsLists == UNION {[1..d -> DetBoundPairs] : d \in 0..MaxDim}

\* two initializers over the same bounds: the first built with or without an
\* explicit seed, the second with an explicit seed
InitDeterminism ==
    /\ \E bounds \in DetBoundsLists, seed \in Seeds :
         \/ \E first \in Seeds :
              inits = <<with_seed(bounds, first), with_seed(bounds, seed)>>
              /\ ctor = <<"with_seed", "with_seed">>
         \/ \E first \in new(bounds) :
              inits = <<first, with_seed(bounds, seed)>>
              /\ ctor = <<"new", "with_seed">>
    /\ ini = NoIni /\ prev = NoPrev
    /\ NoSelector /\ NoMutation /\ NoCrossover

\* the operators that evaluate the objective
SpecEvaluation ==
    (InitInitializer \/ InitSelector) /\ [][NextInitializer \/ NextSelector]_vars
SpecDeterminism == InitDeterminism /\ [][NextInitializer]_vars
SpecMutation == InitMutation /\ [][NextMutation]_vars
SpecCrossover == InitCrossover /\ [][NextCrossover]_vars

Init == InitInitializer \/ InitSelector \/ InitMutation \/ InitCrossover
Next == NextInitializer \/ NextSelector \/ NextMutation \/ NextCrossover
Spec == Init /\ [][Next]_vars

---------------------------------------------------------------------------
(* Properties of SimpleSelector *)

TrialPair == <<sel.s_trial.val, sel.v_trial>>
IncumbentPair == <<sel.s_current, sel.v_current>>

\* C1: a select_one call whose trial evaluates to a score equal to
\* current_score returns the incumbent pair (current_score, current_variable)
\* unchanged; the trial pair is returned exactly when its score is strictly
\* less than current_score, and the incumbent pair otherwise.
SelectorTiesKeepIncumbent ==
    (sel.set /\ sel.s_trial.kind = "ok") =>
        /\ sel.s_trial.val = sel.s_current => sel.res = Ok(IncumbentPair)
        /\ sel.s_trial.val < sel.s_current => sel.res = Ok(TrialPair)
        /\ ~(sel.s_trial.val < sel.s_current) => sel.res = Ok(IncumbentPair)

\* a tie between two different vectors, answered with the incumbent
WitnessSelectorTie ==
    /\ sel.set
    /\ sel.s_trial.kind = "ok"
    /\ sel.s_trial.val = sel.s_current
    /\ sel.v_trial # sel.v_current
    /\ sel.res.kind = "ok"
    /\ sel.res.val[2] = sel.v_current

\* C2: the score a successful select_one returns is <= the current_score it
\* was given, and a slot that is replaced by the returned pair, generation
\* after generation, never sees its score increase.
SelectorMonotone ==
    [][/\ (sel'.set /\ sel'.res.kind = "ok") => sel'.res.val[1] <= sel'.s_current
       /\ slot.set => (slot'.set /\ slot'.score <= slot.score)]_vars

\* a generation that lowered the slot's score
WitnessSelectorImproves ==
    /\ sel.set
    /\ sel.res.kind = "ok"
    /\ sel.res.val[1] < sel.s_current
    /\ slot.score = sel.res.val[1]
    /\ slot.variable = sel.v_trial

---------------------------------------------------------------------------
(* Properties of the evaluation failures *)

\* C5: when the objective fails inside initialize, it is the last vector
\* evaluated by that call, the call is over and its result is the error, with
\* no (scores, variables); when it fails inside select_one, the call returns
\* the error and neither pair.
EvaluationFailurePropagates ==
    /\ \A j \in 1..Len(ini.evals) :
          ini.evals[j][2].kind # "ok" =>
              /\ j = Len(ini.evals)
              /\ ini.pc = "done"
              /\ ini.res = Err
              /\ ini.scores = <<>> /\ ini.variables = <<>>
    /\ (sel.set /\ sel.s_trial.kind # "ok") => sel.res = Err

\* initialize failed at its second individual, the first having succeeded
WitnessInitializeFailsLate ==
    /\ ini.pc = "done"
    /\ ini.res = Err
    /\ Len(ini.evals) = 2
    /\ ini.evals[1][2].kind = "ok"
    /\ ini.evals[2][2].kind = "err"

---------------------------------------------------------------------------
(* Properties of SimpleInitializer *)

SameCall ==
    /\ prev.set
    /\ inits[prev.self] = inits[ini.self]
    /\ prev.population_size = ini.population_size
    /\ prev.problem = ini.problem

\* C6: two completed initialize calls on initializers with the same bounds
\* and the same seed (two instances, or one instance called again, built with
\* or without an explicit seed), for the same population size and objective,
\* return the same result.
InitializeDeterministic ==
    (ini.pc = "done" /\ SameCall) => ini.res = prev.res

\* two instances built with the same explicit seed returned the same
\* population of two vectors
WitnessTwoInstancesAgree ==
    /\ ini.pc = "done"
    /\ SameCall
    /\ prev.self # ini.self
    /\ ctor = <<"with_seed", "with_seed">>
    /\ ini.res.kind = "ok"
    /\ Len(ini.res.val[2]) = 2
    /\ Len(inits[ini.self].bounds) >= 1
    /\ ini.res.val[2][1] # ini.res.val[2][2]
    /\ ini.res = prev.res

\* one instance built without an explicit seed returned the same population twice
WitnessSameInstanceAgrees ==
    /\ ini.pc = "done"
    /\ SameCall
    /\ prev.self = ini.self
    /\ ctor[ini.self] = "new"
    /\ ini.res.kind = "ok"
    /\ Len(ini.res.val[2]) = 2
    /\ Len(inits[ini.self].bounds) >= 1
    /\ ini.res = prev.res

\* C9: a successful initialize returns exactly population_size scores and
\* population_size vectors, scores[i] being the evaluation of variables[i]
\* (the i-th evaluation the call made), each vector of the dimension of the
\* bounds list; also for population_size 0 and for an empty bounds list.
InitializeShape ==
    (ini.pc = "done" /\ ini.res.kind = "ok") =>
        LET scores == ini.res.val[1]
            variables == ini.res.val[2]
        IN /\ Len(scores) = ini.population_size
           /\ Len(variables) = ini.population_size
           /\ Len(ini.evals) = ini.population_size
           /\ \A i \in 1..Len(variables) :
                 /\ Len(variables[i]) = Len(inits[ini.self].bounds)
                 /\ i <= Len(scores)
                 /\ i <= Len(ini.evals)
                 /\ ini.evals[i] = <<variables[i], Ok(scores[i])>>

\* a full population from an initializer built by from_single_bound
WitnessInitializeShape ==
    /\ ini.pc = "done"
    /\ ini.res.kind = "ok"
    /\ ini.population_size = MaxPop
    /\ Len(inits[ini.self].bounds) = MaxDim
    /\ ctor[ini.self] = "from_single_bound"
    /\ Len(ini.res.val[2]) = MaxPop

ValidBound(b) == b[1] < b[2] /\ IsFinite(b[2] - b[1])
BoundsOf(self) == inits[self].bounds

InRange(variables, bounds) ==
    \A i \in 1..Len(variables) : \A d \in 1..Len(bounds) :
        /\ d <= Len(variables[i])
        /\ bounds[d][1] <= variables[i][d]
        /\ variables[i][d] < bounds[d][2]

---------------------------------------------------------------------------
(* Properties of SimpleCrossoverOperator *)

\* C4: crossover_one of two vectors of different dimensions returns an error,
\* never a trial vector.
CrossoverRejectsMismatch ==
    (cro.pc = "done" /\ Len(cro.v_current) # Len(cro.v_mutant)) =>
        cro.res.kind = "err"

\* C7: for vectors of equal dimension and every outcome of the draws, a
\* crossover rate of 0 returns the current vector and a crossover rate of 1
\* returns the mutant vector.
CrossoverBoundary ==
    (cro.pc = "done" /\ Len(cro.v_current) = Len(cro.v_mutant)) =>
        /\ crossover_rate = 0 => cro.res = Ok(cro.v_current)
        /\ crossover_rate = RGrid => cro.res = Ok(cro.v_mutant)

\* rate 1 over two vectors that differ in every one of MaxDim dimensions
WitnessCrossoverBoundary ==
    /\ cro.pc = "done"
    /\ crossover_rate = RGrid
    /\ Len(cro.v_current) = MaxDim
    /\ Len(cro.v_mutant) = MaxDim
    /\ \A d \in 1..MaxDim : cro.v_current[d] # cro.v_mutant[d]
    /\ cro.res = Ok(cro.v_mutant)

---------------------------------------------------------------------------
(* Properties of SimpleMutationOperator *)

\* C3: mutate_one on a population of fewer than 3 vectors is never inside the
\* index-drawing loop and never panics: it returns an error.
MutateSmallPopulationErrors ==
    Len(mut.population) < 3 =>
        /\ mut.pc \notin {"loop", "panicked"}
        /\ mut.pc = "done" => mut.res = Err

\* the draws in their order, each index at its first occurrence
RECURSIVE FirstOccurrences(_)
FirstOccurrences(draws) ==
    IF draws = <<>> THEN <<>>
    ELSE LET front == SubSeq(draws, 1, Len(draws) - 1)
             last == draws[Len(draws)]
         IN IF \E j \in 1..Len(front) : front[j] = last
            THEN FirstOccurrences(front)
            ELSE Append(FirstOccurrences(front), last)

\* C8: when mutate_one returns on a population of n >= 3 vectors, the result is
\* population[i0] + F * (population[i1] - population[i2]) elementwise, for
\* three pairwise distinct indices of [0, n) in the order they were first drawn.
MutationRandOne ==
    mut.pc = "done" =>
        LET n == Len(mut.population)
            picked == FirstOccurrences(mut.draws)
        IN /\ n >= 3
           /\ Len(picked) = 3
           /\ Cardinality({picked[1], picked[2], picked[3]}) = 3
           /\ \A k \in 1..3 : 0 <= picked[k] /\ picked[k] < n
           /\ mut.res.kind = "ok"
           /\ LET base == mut.population[picked[1] + 1]
                  diff1 == mut.population[picked[2] + 1]
                  diff2 == mut.population[picked[3] + 1]
              IN /\ Len(mut.res.val) = Len(base)
                 /\ \A d \in 1..Len(base) :
                       mut.res.val[d] = base[d] + scale * (diff1[d] - diff2[d])

\* a mutant that differs from its base, returned after a repeated draw was rejected
WitnessMutationRandOne ==
    /\ mut.pc = "done"
    /\ Len(mut.population) = MaxMutPop
    /\ Len(mut.draws) > 3
    /\ mut.indices[1] # 0
    /\ mut.res.kind = "ok"
    /\ mut.res.val # mut.population[mut.indices[1] + 1]

=============================================================================
